---- MODULE Spec2Model ----
(***************************************************************************)
(* A model of the WhatsApp AI agent's message pipeline:                    *)
(*   src/src/message_handler.py  MessageHandler  (admission pipeline)      *)
(*   src/src/ai_processor.py     AIProcessor     (conversation history)    *)
(*   src/src/bot.py              WhatsAppAIBot   (orchestrator)            *)
(*   src/src/whatsapp_client.py  WhatsAppClient  (transport)               *)
(* Text is modelled by TLA+ strings; the regular expressions of the source *)
(* are modelled by operators that compute what the expressions match.      *)
(* Time is an integer clock whose unit is half an hour.                     *)
(***************************************************************************)
EXTENDS Integers, Sequences, FiniteSets, TLC

VARIABLES
    config,                \* MessageHandler's configuration flags (fixed after construction)
    allowed_contacts,      \* MessageHandler.allowed_contacts
    blocked_contacts,      \* MessageHandler.blocked_contacts
    message_timestamps,    \* MessageHandler.message_timestamps : sender -> list of times
    conversation_history,  \* AIProcessor.conversation_history  : sender -> list of turns
    now,                   \* the wall clock read by datetime.now()
    received,              \* number of inbound messages delivered so far
    last,                  \* what the last run of _handle_message did
    passLog,               \* history variable: every time at which a sender passed the rate check
    stopLog,               \* history variable: the senders whose latest stop/start command was stop
    turnLog,               \* history variable: sender -> every turn appended for the sender, uncapped
    client,                \* WhatsAppClient's configuration: client_type, and whether the
                           \* Business API token and phone number id are both configured
    is_running,            \* WhatsAppAIBot.is_running
    is_connected_flag,     \* WhatsAppClient.is_connected_flag
    message_handlers,      \* WhatsAppClient.message_handlers (the number registered)
    status_handlers,       \* WhatsAppClient.status_handlers (the number registered)
    start_result,          \* how the call of WhatsAppAIBot.start() stands
    objects,               \* the list objects created by overlapping handlers (identity = index)
    stored_list,           \* sender -> the object that conversation_history holds for the sender
    pending,               \* the handlers suspended in the backend call
    answered               \* history variable: sender -> number of overlapping-mode exchanges answered

(* the variables that only handlers overlapping at the backend call use *)
overlap_vars == <<objects, stored_list, pending, answered>>

(* the variables of the bot's life cycle and of the transport *)
bot_vars == <<client, is_running, is_connected_flag, message_handlers, status_handlers,
              start_result>>

vars == <<config, allowed_contacts, blocked_contacts, message_timestamps,
          conversation_history, now, received, last, passLog, stopLog, turnLog,
          overlap_vars, bot_vars>>

-----------------------------------------------------------------------------
(* Bounds of the model *)

MaxTime == 3
MaxMessages == 2
MaxRateMessages == 4
MaxChatMessages == 3
MaxCommandMessages == 2
MaxFaultMessages == 2
MaxFilterMessages == 2
MaxGroupMessages == 2
MaxOverlapMessages == 3
MaxClearMessages == 2
MaxRateCommandMessages == 3
MaxBotMessages == 2
MaxOverlapRateMessages == 3
MaxGroupCommandMessages == 2
max_messages_per_hour == 2
max_history_length == 3

(* timedelta(hours=1), in clock units *)
Hour == 2

Senders == {"A", "B"}

-----------------------------------------------------------------------------
(* Python values *)

None == "<None>"

Truthy(s) == s # None /\ s # ""

(* message bodies that are not text: None (a JSON null), a list, a number *)
ListBody == "<list>"

IntBody == "<int>"

PyType(body) ==
    CASE body = None     -> "NoneType"
      [] body = ListBody -> "list"
      [] body = IntBody  -> "int"
      [] OTHER           -> "str"

(* body[:50] is defined for strings and lists *)
Sliceable(body) == PyType(body) \in {"str", "list"}

(* body.strip() is defined for strings *)
HasStrip(body) == PyType(body) = "str"

(* str(e) of the AttributeError raised by body.strip() *)
AttributeErrorText(body) == "'" \o PyType(body) \o "' object has no attribute 'strip'"

EmptyDict == [k \in {} |-> <<>>]

DictGet(d, k, default) == IF k \in DOMAIN d THEN d[k] ELSE default

(* Fault: a store that writes the value under every key *)
DictSetAll(d, k, v) == [x \in DOMAIN d \cup {k} |-> v]

DictSet(d, k, v) == [x \in DOMAIN d \cup {k} |-> IF x = k THEN v ELSE d[x]]

Min(S) == CHOOSE x \in S : \A y \in S : x <= y

Max(S) == CHOOSE x \in S : \A y \in S : x >= y

(* conversation[-n:] : the last n elements (for n > 0) *)
LastN(seq, n) == IF Len(seq) > n THEN SubSeq(seq, Len(seq) - n + 1, Len(seq)) ELSE seq

-----------------------------------------------------------------------------
(* Text *)

UpperChars == "ABCDEFGHIJKLMNOPQRSTUVWXYZ"
LowerChars == "abcdefghijklmnopqrstuvwxyz"

CharAt(s, i) == SubSeq(s, i, i)

IsSpace(c) == c \in {" ", "\t", "\n", "\r"}

LowerChar(c) ==
    IF \E i \in 1..Len(UpperChars) : CharAt(UpperChars, i) = c
    THEN CharAt(LowerChars, CHOOSE i \in 1..Len(UpperChars) : CharAt(UpperChars, i) = c)
    ELSE c

RECURSIVE Lower(_)
(* str.lower() *)
Lower(s) == IF s = "" THEN "" ELSE LowerChar(CharAt(s, 1)) \o Lower(SubSeq(s, 2, Len(s)))

(* str.strip() *)
Strip(s) ==
    LET keep == {i \in 1..Len(s) : ~IsSpace(CharAt(s, i))}
    IN  IF keep = {} THEN "" ELSE SubSeq(s, Min(keep), Max(keep))

(* s[i:i+len(p)] == p *)
MatchAt(s, p, i) == i + Len(p) - 1 <= Len(s) /\ SubSeq(s, i, i + Len(p) - 1) = p

(* re.search of a literal pattern *)
Contains(s, p) == \E i \in 1..(Len(s) + 1) : MatchAt(s, p, i)

RECURSIVE RemoveAll(_, _)
(* re.sub(p, '', s, flags=re.IGNORECASE) for a literal, lower-case, non-empty p:
   the leftmost non-overlapping occurrences are removed *)
RemoveAll(s, p) ==
    IF s = "" THEN ""
    ELSE IF MatchAt(Lower(s), p, 1) THEN RemoveAll(SubSeq(s, Len(p) + 1, Len(s)), p)
    ELSE CharAt(s, 1) \o RemoveAll(SubSeq(s, 2, Len(s)), p)

RECURSIVE CollapseSpaces(_)
(* re.sub(r'\s+', ' ', s) *)
CollapseSpaces(s) ==
    IF s = "" THEN ""
    ELSE IF IsSpace(CharAt(s, 1))
         THEN LET rest == {i \in 2..Len(s) : ~IsSpace(CharAt(s, i))}
              IN  IF rest = {} THEN " "
                  ELSE " " \o CollapseSpaces(SubSeq(s, Min(rest), Len(s)))
         ELSE CharAt(s, 1) \o CollapseSpaces(SubSeq(s, 2, Len(s)))

-----------------------------------------------------------------------------
(* MessageHandler: command router *)

(* the keys of command_patterns, in insertion order *)
CommandNames == <<"help", "status", "clear", "stop", "start">>

(* Fault: the alternative reset is listed for clear and for start *)
CommandPatternOverlapping(command) ==
    CASE command = "help"   -> {"help", "/help", "?help"}
      [] command = "status" -> {"status", "/status"}
      [] command = "clear"  -> {"clear", "/clear", "reset"}
      [] command = "stop"   -> {"stop", "/stop", "pause"}
      [] command = "start"  -> {"start", "/start", "resume", "reset"}

(* the alternatives of ^(?:a|b|c)$ for each command *)
CommandPattern(command) ==
    CASE command = "help"   -> {"help", "/help", "?help"}
      [] command = "status" -> {"status", "/status"}
      [] command = "clear"  -> {"clear", "/clear", "reset"}
      [] command = "stop"   -> {"stop", "/stop", "pause"}
      [] command = "start"  -> {"start", "/start", "resume"}

(* Fault: re.search without anchors - an alternative anywhere in s matches *)
ReSearch(alternatives, s) == \E a \in alternatives : Contains(s, a)

(* re.match(r'^(?:a|b|c)$', s): the whole of s is one alternative; '$' also
   matches just before a newline that ends s *)
ReMatch(alternatives, s) == \E a \in alternatives : s = a \/ s = a \o "\n"

HelpMessage == "*AI Assistant Help* *Available Commands:* help status clear stop start"
StatusReply == "I'm online and ready to help!"
ClearReply  == "Conversation history cleared!"
StopReply   == "I'll stop responding to your messages. Send 'start' to resume."
StartReply  == "I'm back! How can I help you?"
RateLimitNotice ==
    "You're sending messages too quickly. Please wait a moment before sending another message."

NoCommand ==
    [matched |-> FALSE, command |-> None, content |-> None,
     clear_history |-> FALSE, action |-> None]

HandleCommand(command) ==
    CASE command = "help" ->
            [matched |-> TRUE, command |-> command, content |-> HelpMessage,
             clear_history |-> FALSE, action |-> None]
      [] command = "status" ->
            [matched |-> TRUE, command |-> command, content |-> StatusReply,
             clear_history |-> FALSE, action |-> None]
      [] command = "clear" ->
            [matched |-> TRUE, command |-> command, content |-> ClearReply,
             clear_history |-> TRUE, action |-> None]
      [] command = "stop" ->
            [matched |-> TRUE, command |-> command, content |-> StopReply,
             clear_history |-> FALSE, action |-> "pause"]
      [] command = "start" ->
            [matched |-> TRUE, command |-> command, content |-> StartReply,
             clear_history |-> FALSE, action |-> "resume"]
      [] OTHER ->
            [matched |-> TRUE, command |-> command, content |-> "Unknown command.",
             clear_history |-> FALSE, action |-> None]

(* the first pattern, in dictionary order, that matches the lower-cased, stripped content *)
ProcessCommand(content) ==
    LET content_lower == Strip(Lower(content))
        hits == {i \in 1..Len(CommandNames) :
                    ReMatch(CommandPattern(CommandNames[i]), content_lower)}
    IN  IF hits = {} THEN NoCommand ELSE HandleCommand(CommandNames[Min(hits)])

(* the commands whose pattern matches the lower-cased, stripped content *)
MatchingCommands(content) ==
    {CommandNames[i] : i \in {j \in 1..Len(CommandNames) :
        ReMatch(CommandPattern(CommandNames[j]), Strip(Lower(content)))}}

-----------------------------------------------------------------------------
(* MessageHandler: mention detector and content cleaning *)

(* Fault: a bot whose configured name is a command word *)
bot_name_is_command == "stop"

(* config.get('bot_name', 'AI Assistant') with no bot_name configured *)
bot_name == "AI Assistant"

(* re.search(r'^bot[,:\s]', s) *)
StartsWithBot(s) ==
    /\ Len(s) >= 4
    /\ SubSeq(s, 1, 3) = "bot"
    /\ (CharAt(s, 4) \in {",", ":"} \/ IsSpace(CharAt(s, 4)))

IsBotMentioned(content) ==
    LET content_lower == Lower(content)
    IN  \/ Contains(content_lower, "@bot")
        \/ Contains(content_lower, "hey bot")
        \/ Contains(content_lower, "hi bot")
        \/ StartsWithBot(content_lower)
        \/ Contains(content_lower, Lower(bot_name))

(* re.sub(r'^bot[,:\s]', '', s, flags=re.IGNORECASE) *)
RemoveLeadingBot(s) == IF StartsWithBot(Lower(s)) THEN SubSeq(s, 5, Len(s)) ELSE s

(* Fault: the mention patterns are not removed from group messages *)
CleanKeepingMention(content, is_group) == CollapseSpaces(Strip(content))

CleanMessageContent(content, is_group) ==
    LET c0 == Strip(content)
        c1 == Strip(RemoveAll(c0, "@bot"))
        c2 == Strip(RemoveAll(c1, "hey bot"))
        c3 == Strip(RemoveAll(c2, "hi bot"))
        c4 == Strip(RemoveLeadingBot(c3))
        c5 == Strip(RemoveAll(c4, Lower(bot_name)))
    IN  CollapseSpaces(IF is_group THEN c5 ELSE c0)

-----------------------------------------------------------------------------
(* MessageHandler: contact filter and rate limiter *)

(* Fault: a sender on the allowlist is never treated as blocked *)
IsBlockedUnlessAllowed(sender) ==
    sender \in blocked_contacts /\ sender \notin allowed_contacts

IsBlockedContact(sender) == sender \in blocked_contacts

IsAllowedContact(sender) == allowed_contacts = {} \/ sender \in allowed_contacts

(* Fault: the allowlist is enforced even when it is empty *)
NotAllowedStrict(sender) == sender \notin allowed_contacts

(* "self.allowed_contacts and not self._is_allowed_contact(sender)" *)
NotAllowed(sender) == allowed_contacts # {} /\ ~IsAllowedContact(sender)

(* Faults of the pruning step: nothing is pruned; a timestamp exactly one hour
   old is kept *)
PruneNothing(timestamps, hour_ago) == timestamps

PruneInclusive(timestamps, hour_ago) == SelectSeq(timestamps, LAMBDA t : t >= hour_ago)

(* the timestamps of a list that survive "timestamp > hour_ago" *)
Prune(timestamps, hour_ago) == SelectSeq(timestamps, LAMBDA t : t > hour_ago)

(* Faults of the check: the cap is compared with ">" instead of ">="; the
   rate_limit_enabled flag is not consulted *)
CheckRateLimitOffByOne(sender) ==
    IF ~config.rate_limit_enabled
    THEN [ok |-> TRUE, timestamps |-> message_timestamps]
    ELSE LET kept == Prune(DictGet(message_timestamps, sender, <<>>), now - Hour)
         IN  IF Len(kept) > max_messages_per_hour
             THEN [ok |-> FALSE, timestamps |-> DictSet(message_timestamps, sender, kept)]
             ELSE [ok |-> TRUE,
                   timestamps |-> DictSet(message_timestamps, sender, Append(kept, now))]

CheckRateLimitAlways(sender) ==
    LET kept == Prune(DictGet(message_timestamps, sender, <<>>), now - Hour)
    IN  IF Len(kept) >= max_messages_per_hour
        THEN [ok |-> FALSE, timestamps |-> DictSet(message_timestamps, sender, kept)]
        ELSE [ok |-> TRUE,
              timestamps |-> DictSet(message_timestamps, sender, Append(kept, now))]

(* _check_rate_limit: the value returned and the timestamp map it leaves *)
CheckRateLimit(sender) ==
    IF ~config.rate_limit_enabled
    THEN [ok |-> TRUE, timestamps |-> message_timestamps]
    ELSE LET hour_ago == now - Hour
             kept == Prune(DictGet(message_timestamps, sender, <<>>), hour_ago)
         IN  IF Len(kept) >= max_messages_per_hour
             THEN [ok |-> FALSE, timestamps |-> DictSet(message_timestamps, sender, kept)]
             ELSE [ok |-> TRUE,
                   timestamps |-> DictSet(message_timestamps, sender, Append(kept, now))]

-----------------------------------------------------------------------------
(* The message bodies and backend completions of the model.  The text operators
   above are tabulated over them, so that each is computed once per text. *)

Bodies == {"hello", "CLEAR", "@bot hi"}

(* bodies that the command router must and must not recognise *)
CommandBodies ==
    {"help", "/help", "?help", "status", "/status", "clear", "/clear", "reset",
     "stop", "/stop", "pause", "start", "/start", "resume",
     "CLEAR", "Reset", " /Clear ", "\tRESET\n", "HELP", "Stop", "  start",
     "please clear", "clear history", "reset!", "/ clear", "helpme", "restart",
     "stop it", "status?", "//clear"}

(* group bodies that address the bot, and one that does not *)
MentionBodies == {"@bot what's the weather", "Hey bot  what's up", "what's the weather"}

ApiError == "<error>"

ApiOutcomes == {ApiError, " ", "Sure. "}

(* bodies for group chats: bare commands, commands behind each kind of mention,
   and a mention without a command *)
GroupCommandBodies ==
    {"stop", "/help", "@bot stop", "bot, help", "hey bot clear", "hi bot /start",
     "AI Assistant status", "@bot hi"}

StripOf ==
    [text \in Bodies \cup CommandBodies \cup MentionBodies \cup GroupCommandBodies
               \cup ApiOutcomes |-> Strip(text)]

Contents ==
    {StripOf[body] :
        body \in Bodies \cup CommandBodies \cup MentionBodies \cup GroupCommandBodies}

ProcessCommandOf == [content \in Contents |-> ProcessCommand(content)]

MatchingCommandsOf == [content \in Contents |-> MatchingCommands(content)]

IsBotMentionedOf == [content \in Contents |-> IsBotMentioned(content)]

CleanMessageContentOf ==
    [content \in Contents |-> [is_group \in BOOLEAN |-> CleanMessageContent(content, is_group)]]

-----------------------------------------------------------------------------
(* MessageHandler.process_message *)

NoContext ==
    [present |-> FALSE, is_group |-> FALSE, sender |-> None,
     original_message |-> None, cleaned_message |-> None]

(* Fault: the require_mention flag is read inverted *)
MentionMissingInverted(content) == ~config.require_mention /\ ~IsBotMentionedOf[content]

(* "self.require_mention and not self._is_bot_mentioned(content)" *)
MentionMissing(content) == config.require_mention /\ ~IsBotMentionedOf[content]

(* response_data as initialised at the top of process_message *)
ResponseData(message, content) ==
    [content |-> content, sender |-> message.from, is_group |-> message.isGroupMsg,
     message_type |-> message.type, should_respond |-> FALSE, response_type |-> "text",
     context |-> NoContext, clear_history |-> FALSE, action |-> None, error |-> None]

(* the dictionary returned by the except clause: the keys it lacks read as None *)
FaultResult(error) ==
    [content |-> "", sender |-> None, is_group |-> FALSE, message_type |-> None,
     should_respond |-> FALSE, response_type |-> None, context |-> NoContext,
     clear_history |-> FALSE, action |-> None, error |-> error]

(* Fault: the rate check runs before the filters, so a stopped message is counted *)
StoppedAfterRateCheck(response_data, stage) ==
    [result |-> response_data, stage |-> stage,
     timestamps |-> CheckRateLimit(response_data.sender).timestamps]

(* "return response_data" at one of the steps that precede the rate check *)
Stopped(response_data, stage) ==
    [result |-> response_data, stage |-> stage, timestamps |-> message_timestamps]

(* The value process_message returns (result), the return statement that produced
   it (stage) and the timestamp map the call leaves behind. *)
ProcessMessage(message) ==
    LET sender == message.from
        content == StripOf[message.body]
        is_group == message.isGroupMsg
        response_data == ResponseData(message, content)
        stopped(stage) == Stopped(response_data, stage)
        rate == CheckRateLimit(sender)
        command_result == ProcessCommandOf[content]
        cleaned_content == CleanMessageContentOf[content][is_group]
    IN  IF ~HasStrip(message.body)
        THEN [result |-> FaultResult(AttributeErrorText(message.body)), stage |-> "fault",
              timestamps |-> message_timestamps]
        ELSE IF message.type # "text" THEN stopped("non_text")
        ELSE IF IsBlockedContact(sender) THEN stopped("blocked")
        ELSE IF NotAllowed(sender) THEN stopped("not_allowed")
        ELSE IF is_group /\ ~config.respond_to_groups THEN stopped("groups_disabled")
        ELSE IF is_group /\ MentionMissing(content) THEN stopped("no_mention")
        ELSE IF ~rate.ok
             THEN [result |-> [response_data EXCEPT !.should_respond = TRUE,
                                                    !.content = RateLimitNotice],
                   stage |-> "rate_limited", timestamps |-> rate.timestamps]
        ELSE IF command_result.matched
             THEN [result |-> [response_data EXCEPT !.content = command_result.content,
                                                    !.clear_history = command_result.clear_history,
                                                    !.action = command_result.action,
                                                    !.should_respond = TRUE],
                   stage |-> "command", timestamps |-> rate.timestamps]
        ELSE [result |-> [response_data EXCEPT
                              !.content = cleaned_content,
                              !.context = [present |-> TRUE, is_group |-> is_group,
                                           sender |-> sender, original_message |-> content,
                                           cleaned_message |-> cleaned_content],
                              !.should_respond = TRUE],
              stage |-> "normal", timestamps |-> rate.timestamps]

-----------------------------------------------------------------------------
(* AIProcessor *)

provider == "openai"

Turn(role, content) == [role |-> role, content |-> content]

(* _generate_with_openai: the API call either raises (None is returned) or yields
   a completion, which is stripped *)
GenerateWithOpenAI(api) == IF api = ApiError THEN None ELSE StripOf[api]

GenerateWithProvider(api) ==
    CASE provider = "openai"    -> GenerateWithOpenAI(api)
      [] provider = "anthropic" -> "Sorry, I'm not available right now. Please try again later."
      [] provider = "local"     -> "Hello! I'm running on a local model. How can I help you?"
      [] OTHER                  -> None

(* Fault: conversation[:max_history_length] - the oldest turns are kept *)
UpdateKeepingOldest(history, sender, conversation) ==
    DictSet(history, sender,
            IF Len(conversation) > max_history_length
            THEN SubSeq(conversation, 1, max_history_length)
            ELSE conversation)

(* _update_conversation_history *)
UpdateConversationHistory(history, sender, conversation) ==
    DictSet(history, sender,
            IF Len(conversation) > max_history_length
            THEN LastN(conversation, max_history_length)
            ELSE conversation)

(* generate_response, run without interruption.  _get_conversation_history returns
   the stored list itself when the sender has one, so the append of the user turn
   changes the stored history in place; for a sender without history it returns a
   fresh list, which is stored only by _update_conversation_history.  events lists
   the statements executed, in their order. *)
GenerateResponse(message, sender, api) ==
    LET stored == sender \in DOMAIN conversation_history
        with_user == Append(DictGet(conversation_history, sender, <<>>),
                            Turn("user", message))
        history1 == IF stored THEN DictSet(conversation_history, sender, with_user)
                    ELSE conversation_history
        response == GenerateWithProvider(api)
        with_reply == Append(with_user, Turn("assistant", response))
    IN  IF Truthy(response)
        THEN [response |-> response, prompt |-> LastN(with_user, max_history_length),
              history |-> UpdateConversationHistory(history1, sender, with_reply),
              events |-> <<"append_user", "backend", "append_assistant", "update_history">>]
        ELSE [response |-> None, prompt |-> LastN(with_user, max_history_length),
              history |-> history1,
              events |-> <<"append_user", "backend">>]

-----------------------------------------------------------------------------
(* WhatsAppAIBot._handle_message, for a message whose handler runs to completion
   before the next message is delivered *)

(* how many recorded passes of a sender lie within the hour that ends at time t *)
PassesInHour(sender, t) ==
    Cardinality({i \in 1..Len(passLog[sender]) : passLog[sender][i] > t - Hour})

(* the fallback notice of the except clause of _handle_message *)
ErrorNotice == "Sorry, I encountered an error processing your message. Please try again later."

NoMessage == [from |-> None, body |-> None, isGroupMsg |-> FALSE, type |-> None]

(* the client types that WhatsAppClient.initialize and send_message dispatch on *)
SupportedClientTypes == {"web", "business_api", "unofficial"}

(* WhatsAppClient.send_message: what it returns; it raises nothing *)
SendMessage(connected, c) == connected /\ c.client_type \in SupportedClientTypes

(* Fault: a send that is repeated once when it returns False *)
SendWithRetry(to, message) ==
    IF SendMessage(is_connected_flag, client)
    THEN <<[to |-> to, message |-> message]>>
    ELSE <<[to |-> to, message |-> message], [to |-> to, message |-> message]>>

(* the calls of whatsapp_client.send_message that one send statement of
   _handle_message makes *)
SendCalls(to, message) == <<[to |-> to, message |-> message]>>

(* the log statement that opens _handle_message slices the body; when that raises,
   process_message is not reached and the except clause runs *)
HandleMessage(message, api) ==
    LET sender == message.from
        raised == ~Sliceable(message.body)
        processed == ProcessMessage(message)
        processed_message == IF raised THEN ResponseData(NoMessage, None) ELSE processed.result
        stage == IF raised THEN "handler_fault" ELSE processed.stage
        respond == processed_message.should_respond
        generated == GenerateResponse(processed_message.content, sender, api)
        ai_response == IF respond THEN generated.response ELSE None
        sent == IF raised
                THEN IF config.send_error_notifications
                     THEN SendCalls(sender, ErrorNotice) ELSE <<>>
                ELSE IF Truthy(ai_response)
                     THEN SendCalls(sender, ai_response) ELSE <<>>
    IN  /\ received' = received + 1
        /\ message_timestamps' = IF raised THEN message_timestamps ELSE processed.timestamps
        /\ conversation_history' =
               IF respond THEN generated.history ELSE conversation_history
        /\ passLog' =
               IF stage \in {"command", "normal"}
               THEN [passLog EXCEPT ![sender] = Append(@, now)]
               ELSE passLog
        /\ stopLog' =
               CASE processed_message.action = "pause"  -> stopLog \cup {sender}
                 [] processed_message.action = "resume" -> stopLog \ {sender}
                 [] OTHER                               -> stopLog
        /\ turnLog' =
               IF ~respond \/ sender \notin DOMAIN turnLog THEN turnLog
               ELSE [turnLog EXCEPT ![sender] =
                         Append(@, Turn("user", processed_message.content))
                         \o (IF Truthy(ai_response)
                             THEN <<Turn("assistant", ai_response)>> ELSE <<>>)]
        /\ last' = [message |-> message,
                    at |-> now,
                    stage |-> stage,
                    processed_message |-> processed_message,
                    ai_called |-> respond,
                    ai_response |-> ai_response,
                    prompt |-> IF respond THEN generated.prompt ELSE <<>>,
                    events |-> IF raised
                               THEN IF config.send_error_notifications
                                    THEN <<"send">> ELSE <<>>
                               ELSE IF ~respond THEN <<>>
                               ELSE IF Truthy(ai_response)
                                    THEN Append(generated.events, "send")
                                    ELSE generated.events,
                    sent |-> sent,
                    send_returned |->
                        [i \in 1..Len(sent) |-> SendMessage(is_connected_flag, client)],
                    was_blocked |-> sender \in blocked_contacts,
                    was_stopped |-> sender \in stopLog,
                    timestamps_before |-> DictGet(message_timestamps, sender, <<>>),
                    passes_in_hour |-> PassesInHour(sender, now),
                    history_before |-> DictGet(conversation_history, sender, <<>>)]
        /\ UNCHANGED <<config, allowed_contacts, blocked_contacts, now, overlap_vars, bot_vars>>

-----------------------------------------------------------------------------
(* WhatsAppAIBot._handle_message, for handlers that overlap: a handler runs
   without interruption up to the await of the backend call inside
   generate_response, where other handlers may start or resume, and from the
   backend's return to its end.  Between the two parts the handler holds a
   reference to the list that _get_conversation_history returned, so the lists
   are objects with an identity here. *)

(* the dictionary conversation_history, read through the references *)
HistoryOf(objs, refs) == [s \in DOMAIN refs |-> objs[refs[s]]]

(* _handle_message up to the await of the backend call *)
StartHandler(message) ==
    LET sender == message.from
        processed == ProcessMessage(message)
        processed_message == processed.result
        respond == processed_message.should_respond
        has_list == sender \in DOMAIN stored_list
        conversation == IF has_list THEN stored_list[sender] ELSE Len(objects) + 1
        user_turn == Turn("user", processed_message.content)
        objects1 == IF has_list
                    THEN [objects EXCEPT ![conversation] = Append(@, user_turn)]
                    ELSE Append(objects, <<user_turn>>)
    IN  /\ Sliceable(message.body)
        /\ received' = received + 1
        /\ message_timestamps' = processed.timestamps
        /\ passLog' =
               IF processed.stage \in {"command", "normal"}
               THEN [passLog EXCEPT ![sender] = Append(@, now)]
               ELSE passLog
        /\ stopLog' =
               CASE processed_message.action = "pause"  -> stopLog \cup {sender}
                 [] processed_message.action = "resume" -> stopLog \ {sender}
                 [] OTHER                               -> stopLog
        /\ turnLog' =
               IF respond /\ sender \in DOMAIN turnLog
               THEN [turnLog EXCEPT ![sender] = Append(@, user_turn)]
               ELSE turnLog
        /\ objects' = IF respond THEN objects1 ELSE objects
        /\ pending' =
               IF respond
               THEN pending \cup {[id |-> received + 1,
                                   message |-> message,
                                   at |-> now,
                                   stage |-> processed.stage,
                                   processed_message |-> processed_message,
                                   conversation |-> conversation,
                                   prompt |-> LastN(objects1[conversation], max_history_length),
                                   was_blocked |-> sender \in blocked_contacts,
                                   was_stopped |-> sender \in stopLog,
                                   timestamps_before |->
                                       DictGet(message_timestamps, sender, <<>>),
                                   passes_in_hour |-> PassesInHour(sender, now)]}
               ELSE pending
        /\ conversation_history' = HistoryOf(objects', stored_list)
        /\ UNCHANGED <<config, allowed_contacts, blocked_contacts, now, last,
                       stored_list, answered, bot_vars>>

(* _handle_message from the return of the backend call to its end *)
BackendReturns(handler, api) ==
    LET sender == handler.message.from
        response == GenerateWithProvider(api)
        objects1 == [objects EXCEPT ![handler.conversation] =
                         Append(@, Turn("assistant", response))]
        conversation == objects1[handler.conversation]
        trimmed == Len(conversation) > max_history_length
    IN  /\ handler \in pending
        /\ pending' = pending \ {handler}
        /\ objects' =
               IF ~Truthy(response) THEN objects
               ELSE IF trimmed
                    THEN Append(objects1, LastN(conversation, max_history_length))
                    ELSE objects1
        /\ stored_list' =
               IF ~Truthy(response) THEN stored_list
               ELSE DictSet(stored_list, sender,
                            IF trimmed THEN Len(objects1) + 1 ELSE handler.conversation)
        /\ conversation_history' = HistoryOf(objects', stored_list')
        /\ answered' =
               IF Truthy(response) THEN [answered EXCEPT ![sender] = @ + 1] ELSE answered
        /\ turnLog' =
               IF Truthy(response) /\ sender \in DOMAIN turnLog
               THEN [turnLog EXCEPT ![sender] = Append(@, Turn("assistant", response))]
               ELSE turnLog
        /\ last' = [message |-> handler.message,
                    at |-> handler.at,
                    stage |-> handler.stage,
                    processed_message |-> handler.processed_message,
                    ai_called |-> TRUE,
                    ai_response |-> IF Truthy(response) THEN response ELSE None,
                    prompt |-> handler.prompt,
                    events |-> IF Truthy(response)
                               THEN <<"append_user", "backend", "append_assistant",
                                      "update_history", "send">>
                               ELSE <<"append_user", "backend">>,
                    sent |-> IF Truthy(response) THEN SendCalls(sender, response) ELSE <<>>,
                    send_returned |->
                        IF Truthy(response)
                        THEN [i \in 1..Len(SendCalls(sender, response)) |->
                                  SendMessage(is_connected_flag, client)]
                        ELSE <<>>,
                    was_blocked |-> handler.was_blocked,
                    was_stopped |-> handler.was_stopped,
                    timestamps_before |-> handler.timestamps_before,
                    passes_in_hour |-> handler.passes_in_hour,
                    history_before |-> DictGet(conversation_history, sender, <<>>)]
        /\ UNCHANGED <<config, allowed_contacts, blocked_contacts, message_timestamps,
                       now, received, passLog, stopLog, bot_vars>>

(* AIProcessor.clear_conversation_history; "if sender:" is Python truthiness *)
ClearConversationHistory(sender) ==
    /\ conversation_history' =
           IF Truthy(sender)
           THEN [s \in DOMAIN conversation_history \ {sender} |-> conversation_history[s]]
           ELSE EmptyDict
    /\ UNCHANGED <<config, allowed_contacts, blocked_contacts, message_timestamps,
                   now, received, last, passLog, stopLog, turnLog,
                   overlap_vars, bot_vars>>

(* the clock advances *)
Tick ==
    /\ now < MaxTime
    /\ now' = now + 1
    /\ UNCHANGED <<config, allowed_contacts, blocked_contacts, message_timestamps,
                   conversation_history, received, last, passLog, stopLog, turnLog,
                   overlap_vars, bot_vars>>

(* MessageHandler.add_blocked_contact *)
AddBlockedContact(contact) ==
    /\ contact \notin blocked_contacts
    /\ blocked_contacts' = blocked_contacts \cup {contact}
    /\ UNCHANGED <<config, allowed_contacts, message_timestamps, conversation_history,
                   now, received, last, passLog, stopLog, turnLog,
                   overlap_vars, bot_vars>>

(* MessageHandler.remove_blocked_contact *)
RemoveBlockedContact(contact) ==
    /\ contact \in blocked_contacts
    /\ blocked_contacts' = blocked_contacts \ {contact}
    /\ UNCHANGED <<config, allowed_contacts, message_timestamps, conversation_history,
                   now, received, last, passLog, stopLog, turnLog,
                   overlap_vars, bot_vars>>

-----------------------------------------------------------------------------
(* The life cycle of the bot: WhatsAppAIBot.start and stop, WhatsAppClient.initialize
   and disconnect, and the delivery of a message to the registered handlers.  The
   awaits of initialize and disconnect are sleeps during which nothing that the
   model follows can run, so start up to its loop, and stop, are single steps. *)

(* WhatsAppClient.initialize raises ValueError for an unsupported client type, and
   _initialize_business_api raises it when the token or the phone number id is
   missing; is_connected_flag is set only after both *)
InitializeRaises(c) ==
    \/ c.client_type \notin SupportedClientTypes
    \/ c.client_type = "business_api" /\ ~c.credentials

(* Fault: a start that registers its handlers before it initializes the transport *)
StartRegisteringFirst(c) ==
    IF InitializeRaises(c)
    THEN [is_running |-> FALSE, is_connected_flag |-> FALSE,
          message_handlers |-> message_handlers + 1,
          status_handlers |-> status_handlers + 1, start_result |-> "raised"]
    ELSE [is_running |-> TRUE, is_connected_flag |-> TRUE,
          message_handlers |-> message_handlers + 1,
          status_handlers |-> status_handlers + 1, start_result |-> "running"]

(* WhatsAppAIBot.start up to its loop: when initialize raises, the except clause
   awaits stop() (is_running False, disconnect) and re-raises; otherwise the two
   handlers are registered and is_running is set *)
BotStart(c) ==
    IF InitializeRaises(c)
    THEN [is_running |-> FALSE, is_connected_flag |-> FALSE,
          message_handlers |-> message_handlers,
          status_handlers |-> status_handlers, start_result |-> "raised"]
    ELSE [is_running |-> TRUE, is_connected_flag |-> TRUE,
          message_handlers |-> message_handlers + 1,
          status_handlers |-> status_handlers + 1, start_result |-> "running"]

StartBot ==
    /\ start_result = "not_called"
    /\ LET started == BotStart(client)
       IN  /\ is_running' = started.is_running
           /\ is_connected_flag' = started.is_connected_flag
           /\ message_handlers' = started.message_handlers
           /\ status_handlers' = started.status_handlers
           /\ start_result' = started.start_result
    /\ UNCHANGED <<config, allowed_contacts, blocked_contacts, message_timestamps,
                   conversation_history, now, received, last, passLog, stopLog, turnLog,
                   overlap_vars, client>>

(* WhatsAppAIBot.stop, which also ends the loop of a running start(); the
   registered handlers stay registered *)
StopBot ==
    /\ is_running' = FALSE
    /\ is_connected_flag' = FALSE
    /\ start_result' = IF start_result = "running" THEN "returned" ELSE start_result
    /\ UNCHANGED <<config, allowed_contacts, blocked_contacts, message_timestamps,
                   conversation_history, now, received, last, passLog, stopLog, turnLog,
                   overlap_vars, client, message_handlers, status_handlers>>

(* a message arrives: every registered message handler is awaited with it
   (WhatsAppClient.simulate_incoming_message); start() registers one *)
Deliver(message, api) ==
    /\ message_handlers > 0
    /\ HandleMessage(message, api)

-----------------------------------------------------------------------------
(* Specifications *)

Configs ==
    [rate_limit_enabled : BOOLEAN, respond_to_groups : BOOLEAN, require_mention : BOOLEAN,
     send_error_notifications : {FALSE}]

(* the defaults of MessageHandler.__init__ and of _handle_message's except clause *)
DefaultConfig ==
    [rate_limit_enabled |-> TRUE, respond_to_groups |-> FALSE, require_mention |-> TRUE,
     send_error_notifications |-> FALSE]

NothingHandled ==
    [message |-> NoMessage, at |-> 0, stage |-> "none",
     processed_message |-> ResponseData(NoMessage, None),
     ai_called |-> FALSE, ai_response |-> None, prompt |-> <<>>, events |-> <<>>,
     sent |-> <<>>, send_returned |-> <<>>,
     was_blocked |-> FALSE, was_stopped |-> FALSE, timestamps_before |-> <<>>,
     passes_in_hour |-> 0, history_before |-> <<>>]

(* MessageHandler and AIProcessor after construction, for a given configuration *)
Components(cfg, allowed, blocked) ==
    /\ config = cfg
    /\ allowed_contacts = allowed
    /\ blocked_contacts = blocked
    /\ message_timestamps = EmptyDict
    /\ conversation_history = EmptyDict
    /\ now = 0
    /\ received = 0
    /\ last = NothingHandled
    /\ passLog = [s \in Senders |-> <<>>]
    /\ stopLog = {}
    /\ objects = <<>>
    /\ stored_list = EmptyDict
    /\ pending = {}
    /\ answered = [s \in Senders |-> 0]

WebClient == [client_type |-> "web", credentials |-> FALSE]

(* WhatsAppAIBot.__init__ and WhatsAppClient.__init__ *)
NewBot(c) ==
    /\ client = c
    /\ is_running = FALSE
    /\ is_connected_flag = FALSE
    /\ message_handlers = 0
    /\ status_handlers = 0
    /\ start_result = "not_called"

(* the bot once start() has initialized the transport, registered its handlers
   and entered its loop *)
Started(c) ==
    /\ client = c
    /\ is_running = TRUE
    /\ is_connected_flag = TRUE
    /\ message_handlers = 1
    /\ status_handlers = 1
    /\ start_result = "running"

(* the state in which the message pipeline is exercised: the components as
   constructed, behind a started bot with the default web client; the turn log
   follows no sender *)
Constructed(cfg, allowed, blocked) ==
    /\ Components(cfg, allowed, blocked)
    /\ turnLog = EmptyDict
    /\ Started(WebClient)

Block == \E contact \in Senders : AddBlockedContact(contact)

Unblock == \E contact \in Senders : RemoveBlockedContact(contact)

(* Spec: every configuration and contact list, every kind of message, and the
   administrative calls; the clock stands still *)

Messages ==
    [from : Senders, body : Bodies, isGroupMsg : BOOLEAN, type : {"text"}]
    \cup [from : Senders, body : {"hello"}, isGroupMsg : {FALSE}, type : {"image"}]

Init ==
    \E cfg \in Configs, allowed \in SUBSET Senders, blocked \in SUBSET Senders :
        Constructed(cfg, allowed, blocked)

Receive ==
    /\ received < MaxMessages
    /\ \E message \in Messages, api \in ApiOutcomes : HandleMessage(message, api)

Next == Receive \/ Block \/ Unblock

Spec == Init /\ [][Next]_vars

(* SpecRate: direct text messages against the rate limiter, enabled or disabled,
   as the clock advances *)

DirectMessages ==
    [from : Senders, body : {"hello"}, isGroupMsg : {FALSE}, type : {"text"}]

InitRate ==
    \E enabled \in BOOLEAN :
        Constructed([DefaultConfig EXCEPT !.rate_limit_enabled = enabled], {}, {})

ReceiveDirect ==
    /\ received < MaxRateMessages
    /\ \E message \in DirectMessages, api \in ApiOutcomes : HandleMessage(message, api)

NextRate == ReceiveDirect \/ Tick

SpecRate == InitRate /\ [][NextRate]_vars

(* SpecChat: conversations of direct text messages, with a backend that may fail;
   the turn log follows every sender *)

ChatMessages ==
    [from : Senders, body : Bodies, isGroupMsg : {FALSE}, type : {"text"}]

InitChat ==
    \E enabled \in BOOLEAN :
        /\ Components([DefaultConfig EXCEPT !.rate_limit_enabled = enabled], {}, {})
        /\ turnLog = [s \in Senders |-> <<>>]
        /\ Started(WebClient)

ReceiveChat ==
    /\ received < MaxChatMessages
    /\ \E message \in ChatMessages, api \in ApiOutcomes : HandleMessage(message, api)

NextChat == ReceiveChat

SpecChat == InitChat /\ [][NextChat]_vars

(* SpecCommand: direct text messages of one sender whose bodies exercise the
   command router *)

CommandMessages ==
    [from : {"A"}, body : CommandBodies, isGroupMsg : {FALSE}, type : {"text"}]

InitCommand == Constructed(DefaultConfig, {}, {})

ReceiveCommand ==
    /\ received < MaxCommandMessages
    /\ \E message \in CommandMessages, api \in ApiOutcomes : HandleMessage(message, api)

NextCommand == ReceiveCommand

SpecCommand == InitCommand /\ [][NextCommand]_vars

(* SpecFault: direct messages whose body may not be text, with the error
   notification switched on or off *)

FaultBodies == {"hello", None, ListBody, IntBody}

FaultMessages ==
    [from : Senders, body : FaultBodies, isGroupMsg : {FALSE}, type : {"text"}]

InitFault ==
    \E notify \in BOOLEAN :
        Constructed([DefaultConfig EXCEPT !.send_error_notifications = notify], {}, {})

ReceiveFault ==
    /\ received < MaxFaultMessages
    /\ \E message \in FaultMessages, api \in ApiOutcomes : HandleMessage(message, api)

NextFault == ReceiveFault

SpecFault == InitFault /\ [][NextFault]_vars

(* SpecFilter: messages that the filters stop or let pass, for senders that may
   already have a window and a history, as the clock advances and contacts are
   blocked and unblocked *)

FilterMessages ==
    [from : Senders, body : {"hello"}, isGroupMsg : BOOLEAN, type : {"text"}]
    \cup [from : Senders, body : {"hello"}, isGroupMsg : {FALSE}, type : {"image"}]

InitFilter ==
    \E groups \in BOOLEAN, allowed \in {{}, {"A"}} :
        Constructed([DefaultConfig EXCEPT !.respond_to_groups = groups], allowed, {})

ReceiveFilter ==
    /\ received < MaxFilterMessages
    /\ \E message \in FilterMessages, api \in ApiOutcomes : HandleMessage(message, api)

NextFilter == ReceiveFilter \/ Tick \/ Block \/ Unblock

SpecFilter == InitFilter /\ [][NextFilter]_vars

(* SpecGroup: group and direct messages that do and do not address the bot, with
   group responses enabled or disabled and the mention required or not *)

GroupMessages ==
    [from : Senders, body : MentionBodies, isGroupMsg : BOOLEAN, type : {"text"}]

InitGroup ==
    \E groups \in BOOLEAN, mention \in BOOLEAN :
        Constructed([DefaultConfig EXCEPT !.respond_to_groups = groups,
                                          !.require_mention = mention], {}, {})

ReceiveGroup ==
    /\ received < MaxGroupMessages
    /\ \E message \in GroupMessages, api \in ApiOutcomes : HandleMessage(message, api)

NextGroup == ReceiveGroup

SpecGroup == InitGroup /\ [][NextGroup]_vars

(* SpecOverlap: direct text messages whose handlers overlap at the backend call;
   rate limiting is off *)

OverlapMessages ==
    [from : Senders, body : {"hello", "@bot hi"}, isGroupMsg : {FALSE}, type : {"text"}]

InitOverlap == Constructed([DefaultConfig EXCEPT !.rate_limit_enabled = FALSE], {}, {})

Start ==
    /\ received < MaxOverlapMessages
    /\ \E message \in OverlapMessages : StartHandler(message)

Resume == \E handler \in pending, api \in ApiOutcomes : BackendReturns(handler, api)

NextOverlap == Start \/ Resume

SpecOverlap == InitOverlap /\ [][NextOverlap]_vars

(* SpecClear: conversations of direct text messages, and calls of
   clear_conversation_history with a sender, with the empty string that the
   pipeline uses for a message without 'from', and without a sender *)

ClearArguments == Senders \cup {"", None}

InitClear == Constructed(DefaultConfig, {}, {})

ReceiveBeforeClear ==
    /\ received < MaxClearMessages
    /\ \E message \in ChatMessages, api \in ApiOutcomes : HandleMessage(message, api)

Clear == \E sender \in ClearArguments : ClearConversationHistory(sender)

NextClear == ReceiveBeforeClear \/ Clear

SpecClear == InitClear /\ [][NextClear]_vars

(* SpecRateCommand: commands and ordinary messages sent by senders that reach
   the rate cap *)

RateCommandMessages ==
    [from : Senders, body : {"stop", "help", "hello"}, isGroupMsg : {FALSE}, type : {"text"}]

InitRateCommand == Constructed(DefaultConfig, {}, {})

ReceiveRateCommand ==
    /\ received < MaxRateCommandMessages
    /\ \E message \in RateCommandMessages, api \in ApiOutcomes : HandleMessage(message, api)

NextRateCommand == ReceiveRateCommand

SpecRateCommand == InitRateCommand /\ [][NextRateCommand]_vars

(* SpecGroupCommand: group and direct messages that carry commands, bare and
   behind a mention, with group responses enabled and the mention required or not *)

GroupCommandMessages ==
    [from : Senders, body : GroupCommandBodies, isGroupMsg : BOOLEAN, type : {"text"}]

InitGroupCommand ==
    \E mention \in BOOLEAN :
        Constructed([DefaultConfig EXCEPT !.respond_to_groups = TRUE,
                                          !.require_mention = mention], {}, {})

ReceiveGroupCommand ==
    /\ received < MaxGroupCommandMessages
    /\ \E message \in GroupCommandMessages, api \in ApiOutcomes :
           HandleMessage(message, api)

NextGroupCommand == ReceiveGroupCommand

SpecGroupCommand == InitGroupCommand /\ [][NextGroupCommand]_vars

(* SpecOverlapRate: direct text messages whose handlers overlap at the backend
   call, with rate limiting on, as the clock advances.  process_message and
   _check_rate_limit contain no await that suspends, so a handler's check and
   record are within the one step that StartHandler is. *)

OverlapRateMessages ==
    [from : Senders, body : {"hello"}, isGroupMsg : {FALSE}, type : {"text"}]

InitOverlapRate == Constructed(DefaultConfig, {}, {})

StartLimited ==
    /\ received < MaxOverlapRateMessages
    /\ \E message \in OverlapRateMessages : StartHandler(message)

NextOverlapRate == StartLimited \/ Resume \/ Tick

SpecOverlapRate == InitOverlapRate /\ [][NextOverlapRate]_vars

(* SpecBot: the life cycle of a bot with every kind of client configuration, and
   messages, some of them without a text body, delivered while it runs and after
   it was stopped *)

ClientTypes == SupportedClientTypes \cup {"telegram"}

Clients == [client_type : ClientTypes, credentials : BOOLEAN]

BotMessages ==
    [from : Senders, body : {"hello", None}, isGroupMsg : {FALSE}, type : {"text"}]

InitBot ==
    \E notify \in BOOLEAN, c \in Clients :
        /\ Components([DefaultConfig EXCEPT !.send_error_notifications = notify], {}, {})
        /\ turnLog = EmptyDict
        /\ NewBot(c)

ReceiveBot ==
    /\ received < MaxBotMessages
    /\ \E message \in BotMessages, api \in ApiOutcomes : Deliver(message, api)

NextBot == StartBot \/ StopBot \/ ReceiveBot

SpecBot == InitBot /\ [][NextBot]_vars

-----------------------------------------------------------------------------
(* Properties of the rate limiter, checked under SpecRate *)

RateChecked == last.stage \in {"rate_limited", "command", "normal"}

Admitted == last.stage \in {"command", "normal"}

LastSender == last.message.from

OtherSender == CHOOSE s \in Senders : s # LastSender

(* C1: with rate limiting enabled, a message that reaches the check when the
   sender has had max_messages_per_hour messages pass within the hour before it
   is answered with the rate-limit notice (should_respond = true); a message that
   reaches the check when fewer passes lie within the hour - in particular after
   the oldest of them has aged out - is admitted normally. *)
C1_RateLimitRollingHour ==
    (config.rate_limit_enabled /\ RateChecked) =>
        IF last.passes_in_hour >= max_messages_per_hour
        THEN /\ last.stage = "rate_limited"
             /\ last.processed_message.should_respond
             /\ last.processed_message.content = RateLimitNotice
        ELSE /\ Admitted
             /\ last.processed_message.should_respond
             /\ last.processed_message.content # RateLimitNotice

(* a sender that filled the window and was rejected is admitted again once the
   oldest timestamp has aged out *)
C1_Readmitted ==
    /\ config.rate_limit_enabled
    /\ last.stage = "normal"
    /\ Len(last.timestamps_before) = max_messages_per_hour
    /\ passLog[OtherSender] = <<>>
    /\ received > Len(passLog[LastSender])

(* C2: no sender's window ever holds more than max_messages_per_hour timestamps,
   and a rejecting check leaves the window holding exactly the prior timestamps
   that are less than an hour old: the rejected message adds none. *)
C2_WindowWithinCap ==
    /\ \A s \in DOMAIN message_timestamps :
          Len(message_timestamps[s]) <= max_messages_per_hour
    /\ last.stage = "rate_limited" =>
          message_timestamps[LastSender] =
              SelectSeq(last.timestamps_before, LAMBDA t : t > last.at - Hour)

C2_Rejected ==
    /\ last.stage = "rate_limited"
    /\ Len(message_timestamps[LastSender]) = max_messages_per_hour
    /\ last.at > 0

(* C3: right after a check at time t, every timestamp retained for the sender is
   strictly greater than t - 1 hour; a timestamp equal to t - 1 hour is dropped
   and does not count toward the cap. *)
C3_RetainedWithinHour ==
    (config.rate_limit_enabled /\ RateChecked) =>
        /\ \A i \in 1..Len(message_timestamps[LastSender]) :
              message_timestamps[LastSender][i] > last.at - Hour
        /\ Cardinality({i \in 1..Len(last.timestamps_before) :
                           last.timestamps_before[i] > last.at - Hour})
              < max_messages_per_hour
           => Admitted

(* a full window whose oldest timestamp is exactly one hour old admits the message *)
C3_BoundaryExpired ==
    /\ config.rate_limit_enabled
    /\ Admitted
    /\ Len(last.timestamps_before) = max_messages_per_hour
    /\ last.timestamps_before[1] = last.at - Hour
    /\ \A i \in 1..Len(message_timestamps[LastSender]) :
          message_timestamps[LastSender][i] # last.at - Hour

(* C4: with rate limiting disabled every message passes the check and the
   timestamp map stays as constructed, whatever the number of messages. *)
C4_DisabledRecordsNothing ==
    ~config.rate_limit_enabled =>
        /\ message_timestamps = EmptyDict
        /\ last.stage # "none" => Admitted

(* more messages than the cap have passed for one sender within the hour *)
C4_ManyPassed ==
    /\ ~config.rate_limit_enabled
    /\ \E s \in Senders :
          /\ Len(passLog[s]) > max_messages_per_hour
          /\ \A i \in 1..Len(passLog[s]) : passLog[s][i] > now - Hour

-----------------------------------------------------------------------------
(* Properties of the contact filter and the group policy, checked under Spec *)

LastIsText == last.message.type = "text"

OnAllowlistOrNoAllowlist == allowed_contacts = {} \/ LastSender \in allowed_contacts

C6_AllowlistStep ==
    (LastIsText /\ ~last.was_blocked) =>
        /\ allowed_contacts = {} =>
              last.stage \in {"groups_disabled", "no_mention", "rate_limited",
                              "command", "normal"}
        /\ (allowed_contacts # {} /\ LastSender \notin allowed_contacts) =>
              /\ last.stage = "not_allowed"
              /\ ~last.processed_message.should_respond

(* the allowlist is empty, another sender is blocked, and the message is admitted *)
C6_EmptyAllowlistPasses ==
    /\ allowed_contacts = {}
    /\ blocked_contacts = {OtherSender}
    /\ ~last.was_blocked
    /\ last.stage = "normal"

(* C7: with require_mention and respond_to_groups both true, a group text message
   that does not mention the bot gets should_respond = false, and the same text
   sent directly by a non-blocked, allowed sender gets should_respond = true. *)
C7_MentionRequiredInGroups ==
    (/\ config.require_mention
     /\ config.respond_to_groups
     /\ LastIsText
     /\ last.message.body \in {"hello", "CLEAR"}) =>
        /\ last.message.isGroupMsg => ~last.processed_message.should_respond
        /\ (~last.message.isGroupMsg /\ ~last.was_blocked /\ OnAllowlistOrNoAllowlist) =>
              last.processed_message.should_respond

(* a group message without mention from a sender that passes the contact filter *)
C7_GroupWithoutMention ==
    /\ config.require_mention
    /\ config.respond_to_groups
    /\ last.message.isGroupMsg
    /\ last.message.body = "hello"
    /\ ~last.was_blocked
    /\ OnAllowlistOrNoAllowlist
    /\ last.stage = "no_mention"

-----------------------------------------------------------------------------
(* Properties of the command router, checked under SpecCommand *)

(* the bodies of CommandBodies that are a command once trimmed and lower-cased,
   by command, and those that only contain or resemble a command word *)
BodiesOfCommand(command) ==
    CASE command = "help"   -> {"help", "/help", "?help", "HELP"}
      [] command = "status" -> {"status", "/status"}
      [] command = "clear"  -> {"clear", "/clear", "reset", "CLEAR", "Reset", " /Clear ",
                                "\tRESET\n"}
      [] command = "stop"   -> {"stop", "/stop", "pause", "Stop"}
      [] command = "start"  -> {"start", "/start", "resume", "  start"}

NotCommandBodies ==
    {"please clear", "clear history", "reset!", "/ clear", "helpme", "restart",
     "stop it", "status?", "//clear"}

CommandReply(command) ==
    CASE command = "help"   -> [content |-> HelpMessage, clear_history |-> FALSE, action |-> None]
      [] command = "status" -> [content |-> StatusReply, clear_history |-> FALSE, action |-> None]
      [] command = "clear"  -> [content |-> ClearReply, clear_history |-> TRUE, action |-> None]
      [] command = "stop"   -> [content |-> StopReply, clear_history |-> FALSE, action |-> "pause"]
      [] command = "start"  -> [content |-> StartReply, clear_history |-> FALSE, action |-> "resume"]

(* C8: a body is a command exactly when, trimmed and lower-cased, the whole of it
   is one of the command's forms: "/clear", "CLEAR" and "reset" all give the same
   clear-history result, while a body that only contains a command word ("please
   clear") matches no command and is handled as a normal message. *)
C8_CommandMatching ==
    Admitted =>
        /\ \A i \in 1..Len(CommandNames) :
              last.message.body \in BodiesOfCommand(CommandNames[i]) =>
                  /\ last.stage = "command"
                  /\ last.processed_message.should_respond
                  /\ last.processed_message.content = CommandReply(CommandNames[i]).content
                  /\ last.processed_message.clear_history =
                         CommandReply(CommandNames[i]).clear_history
                  /\ last.processed_message.action = CommandReply(CommandNames[i]).action
                  /\ ~last.processed_message.context.present
        /\ last.message.body \in NotCommandBodies =>
              /\ last.stage = "normal"
              /\ ~last.processed_message.clear_history
              /\ last.processed_message.action = None
              /\ last.processed_message.context.present
              /\ last.processed_message.context.original_message = last.message.body

(* an upper-case body padded with whitespace is routed to the clear command *)
C8_PaddedUpperCaseClear ==
    /\ last.message.body = "\tRESET\n"
    /\ last.stage = "command"
    /\ last.processed_message.clear_history
    /\ last.processed_message.content = ClearReply

-----------------------------------------------------------------------------
(* Properties of the conversation history, checked under SpecChat *)

StoredHistory(sender) == DictGet(conversation_history, sender, <<>>)

Replied == last.ai_called /\ Truthy(last.ai_response)

(* the two turns of the last exchange *)
LastExchange ==
    <<Turn("user", last.processed_message.content), Turn("assistant", last.ai_response)>>

(* after an exchange that produced a reply the stored history is the most recent
   max_history_length turns of the prior history followed by the two new turns *)
FifoEviction ==
    Replied =>
        StoredHistory(LastSender) =
            LastN(last.history_before \o LastExchange, max_history_length)

(* C9: no stored history is ever longer than max_history_length, also after
   exchanges in which the backend fails; adding turns to a history at the cap
   drops the oldest turns and keeps the order of the rest. *)
C9_HistoryWithinCap ==
    /\ \A s \in DOMAIN conversation_history :
          Len(conversation_history[s]) <= max_history_length
    /\ FifoEviction

(* C10: after a normal text message is admitted and the backend returns a reply,
   the sender's stored history ends with the user turn holding the cleaned
   content followed by the assistant turn holding the reply. *)
C10_HistoryEndsWithExchange ==
    (last.stage = "normal" /\ Replied) =>
        LET history == StoredHistory(LastSender)
            n == Len(history)
        IN  /\ n >= 2
            /\ history[n - 1] = Turn("user", last.processed_message.content)
            /\ history[n] = Turn("assistant", last.ai_response)
            /\ last.processed_message.content = last.message.body
            /\ last.ai_response = "Sure."

(* the exchange was added to a history that was already at the cap *)
C10_ExchangeAtCap ==
    /\ last.stage = "normal"
    /\ Replied
    /\ Len(last.history_before) = max_history_length

-----------------------------------------------------------------------------
(* Properties of the orchestrator's use of the admission result *)

(* C11: handling a message that the rate limiter rejects (one more than the cap
   within the hour) returns the literal rate-limit notice and leaves the sender's
   conversation history as it was before the message. *)
C11_RateLimitedKeepsHistory ==
    last.stage = "rate_limited" =>
        /\ last.processed_message.content = RateLimitNotice
        /\ StoredHistory(LastSender) = last.history_before

(* the admission result already holds the text of the reply *)
CannedReply == last.stage \in {"rate_limited", "command"}

(* C12: the backend is called only when should_respond is true and the admission
   result is not a canned string: for a rate-limit notice or a command reply the
   backend is not invoked and the text sent to the sender is the canned string. *)
C12_BackendOnlyForGeneratedReplies ==
    /\ last.ai_called => last.processed_message.should_respond
    /\ CannedReply =>
          /\ ~last.ai_called
          /\ last.sent = <<[to |-> LastSender, message |-> last.processed_message.content]>>

(* C13: after a clear command of a sender has been handled, the sender's
   conversation history is empty: no earlier turn remains and the command adds
   no turn. *)
C13_ClearEmptiesHistory ==
    (last.stage = "command" /\ last.processed_message.clear_history) =>
        StoredHistory(LastSender) = <<>>

(* C14: an ordinary message of a sender whose latest stop/start command was stop
   (or pause) gets no generated reply; once the sender has issued start (or
   resume), an ordinary message that the backend answers gets its reply. *)
C14_StoppedSenderGetsNoReply ==
    last.stage = "normal" =>
        IF last.was_stopped
        THEN last.sent = <<>>
        ELSE Truthy(last.ai_response) =>
                 last.sent = <<[to |-> LastSender, message |-> last.ai_response]>>

-----------------------------------------------------------------------------
(* Properties of fault handling, checked under SpecFault *)

BodyIsNotText == last.stage # "none" /\ PyType(last.message.body) # "str"

(* C15: a message whose body is not a string makes process_message return a
   result with should_respond = false and an error string instead of raising,
   and for such a message the orchestrator sends nothing and calls no backend. *)
C15_FaultsAreSilent ==
    BodyIsNotText =>
        /\ ~ProcessMessage(last.message).result.should_respond
        /\ ProcessMessage(last.message).result.error # None
        /\ ~last.ai_called
        /\ last.sent = <<>>

(* C16: when the backend fails (error or empty completion) for an admitted
   message, the generic apology is sent to the sender if error notifications are
   configured, and nothing is sent if they are not. *)
C16_BackendFailureNotice ==
    (Admitted /\ last.ai_called /\ ~Truthy(last.ai_response)) =>
        last.sent = IF config.send_error_notifications
                    THEN <<[to |-> LastSender, message |-> ErrorNotice]>>
                    ELSE <<>>

-----------------------------------------------------------------------------
(* Properties of the steps that precede the rate check, checked under SpecFilter *)

StoppedStages == {"non_text", "blocked", "not_allowed", "groups_disabled", "no_mention"}

(* C17: a message stopped at steps 1-5 (non-text type, blocked sender, sender
   outside a non-empty allowlist, group with group responses disabled, group
   without the required mention) returns should_respond = false and changes no
   state: no rate-limit window is pruned or extended and no conversation history
   changes. *)
C17_StoppedMessageChangesNothing ==
    [][(received' # received /\ last'.stage \in StoppedStages) =>
           /\ ~last'.processed_message.should_respond
           /\ ~last'.ai_called
           /\ message_timestamps' = message_timestamps
           /\ conversation_history' = conversation_history
           /\ allowed_contacts' = allowed_contacts
           /\ blocked_contacts' = blocked_contacts]_vars

(* a stopped message of a sender who has a history and whose window holds a
   timestamp that a rate check would have pruned *)
C17_StoppedWithStaleWindow ==
    /\ last.stage \in StoppedStages
    /\ last.history_before # <<>>
    /\ last.timestamps_before # <<>>
    /\ last.timestamps_before[1] <= last.at - Hour
    /\ message_timestamps[LastSender] = last.timestamps_before

-----------------------------------------------------------------------------
(* Properties of content cleaning, checked under SpecGroup *)

WeatherBody == "@bot what's the weather"

WeatherInGroup ==
    /\ last.message.body = WeatherBody
    /\ last.message.isGroupMsg
    /\ config.require_mention
    /\ config.respond_to_groups

(* C18: with require_mention and respond_to_groups both true, the group message
   "@bot what's the weather" is admitted (should_respond = true); unless the
   sender is over the rate limit, its cleaned content is "what's the weather",
   which no longer contains the mention, and context.original_message is the
   unmodified body. *)
C18_MentionRemoved ==
    WeatherInGroup =>
        /\ last.processed_message.should_respond
        /\ last.stage # "rate_limited" =>
              /\ last.stage = "normal"
              /\ last.processed_message.content = "what's the weather"
              /\ ~Contains(Lower(last.processed_message.content), "@bot")
              /\ last.processed_message.context.present
              /\ last.processed_message.context.cleaned_message = "what's the weather"
              /\ last.processed_message.context.original_message = WeatherBody
              /\ last.prompt[Len(last.prompt)] = Turn("user", "what's the weather")

(* the group message was admitted and answered *)
C18_WeatherAnswered ==
    /\ WeatherInGroup
    /\ last.stage = "normal"
    /\ Replied

-----------------------------------------------------------------------------
(* Properties of overlapping handlers, checked under SpecOverlap *)

(* C19: when handlers of one sender overlap at the backend call, no update of the
   sender's history is lost: once no handler is suspended, the history holds the
   user turn and the assistant turn of every answered exchange of the sender, up
   to the cap - also when the sender had no history before. *)
C19_NoLostUpdate ==
    pending = {} =>
        \A s \in Senders :
            Len(StoredHistory(s)) >= Min({max_history_length, 2 * answered[s]})

-----------------------------------------------------------------------------
(* Properties of clear_conversation_history, checked under SpecClear *)

(* C20: clear_conversation_history called with a sender identifier - any string,
   the empty string of a message without 'from' included - removes that sender's
   history and leaves every other sender's history as it was; a call without a
   sender (None) removes all histories. *)
C20_ClearRemovesOnlySender ==
    [][\A sender \in ClearArguments :
           ClearConversationHistory(sender) =>
               IF sender = None
               THEN conversation_history' = EmptyDict
               ELSE /\ sender \notin DOMAIN conversation_history'
                    /\ \A other \in DOMAIN conversation_history \ {sender} :
                          /\ other \in DOMAIN conversation_history'
                          /\ conversation_history'[other] = conversation_history[other]]_vars

-----------------------------------------------------------------------------
(* Properties of the order of rate check and command handling, checked under
   SpecRateCommand *)

(* the timestamps of the sender's window that the check at last.at keeps *)
KeptBefore == SelectSeq(last.timestamps_before, LAMBDA t : t > last.at - Hour)

(* C21: the rate check precedes command handling: a command that reaches the
   check while the sender is below the cap is handled as a command and takes one
   slot of the sender's window; a command (stop, help) of a sender at the cap
   gets the rate-limit notice instead of the command reply, with no action tag,
   and takes no slot. *)
C21_RateCheckBeforeCommands ==
    (RateChecked /\ last.message.body \in {"stop", "help"}) =>
        IF Len(KeptBefore) >= max_messages_per_hour
        THEN /\ last.stage = "rate_limited"
             /\ last.processed_message.should_respond
             /\ last.processed_message.content = RateLimitNotice
             /\ last.processed_message.action = None
             /\ ~last.processed_message.clear_history
             /\ message_timestamps[LastSender] = KeptBefore
             /\ LastSender \in stopLog <=> last.was_stopped
        ELSE /\ last.stage = "command"
             /\ last.processed_message.content \in {StopReply, HelpMessage}
             /\ message_timestamps[LastSender] = Append(KeptBefore, last.at)

(* a stop command of a sender whose window is full *)
C21_StopAtCap ==
    /\ last.message.body = "stop"
    /\ last.stage = "rate_limited"
    /\ Len(last.timestamps_before) = max_messages_per_hour
    /\ LastSender \notin stopLog

-----------------------------------------------------------------------------
(* Properties of the order of reply, send and history update, checked under
   SpecChat *)

(* the positions at which an event occurs in the last handler's run *)
PositionsOf(event) == {i \in 1..Len(last.events) : last.events[i] = event}

(* C22: for an admitted message that gets a reply, the assistant turn is appended
   to the sender's history only after the transport's send has been called: the
   order of events is backend reply, send, append of the reply. *)
C22_SendBeforeHistoryAppend ==
    Replied =>
        /\ PositionsOf("backend") # {}
        /\ PositionsOf("send") # {}
        /\ PositionsOf("append_assistant") # {}
        /\ Max(PositionsOf("backend")) < Min(PositionsOf("send"))
        /\ Max(PositionsOf("send")) < Min(PositionsOf("append_assistant"))

(* C23: for an admitted message the user turn is appended to the sender's stored
   history whether or not a reply is produced: when the backend returns no reply
   the stored history gains exactly the user turn, for a sender with a history
   and for a sender seen for the first time. *)
C23_UserTurnAlwaysStored ==
    (Admitted /\ last.ai_called /\ ~Truthy(last.ai_response)) =>
        StoredHistory(LastSender) =
            Append(last.history_before, Turn("user", last.processed_message.content))

(* the sender's full uncapped turn sequence up to and including the new user turn *)
TurnsUpToUserTurn ==
    IF Truthy(last.ai_response)
    THEN SubSeq(turnLog[LastSender], 1, Len(turnLog[LastSender]) - 1)
    ELSE turnLog[LastSender]

(* C24: capping at append time is equivalent to windowing at read time: the turns
   surfaced to the generative backend are exactly the most recent
   max_history_length turns of the sender's full uncapped turn sequence ending
   with the new user turn, and never more than max_history_length turns. *)
C24_WindowOfFullSequence ==
    last.ai_called =>
        /\ Len(last.prompt) <= max_history_length
        /\ last.prompt = LastN(TurnsUpToUserTurn, max_history_length)

-----------------------------------------------------------------------------
(* Properties of the transport and of the bot's life cycle, checked under SpecBot *)

(* C26: there is no retry: for each inbound message the orchestrator calls the
   transport's send at most once, and a send that fails (the client is not
   connected, send returns false) is not repeated. *)
C26_SendAtMostOnce ==
    /\ Len(last.sent) <= 1
    /\ Len(last.send_returned) = Len(last.sent)
    /\ (last.send_returned # <<>> /\ ~last.send_returned[1]) => Len(last.sent) = 1

(* a reply was handed to a client that was disconnected, and the send returned False *)
C26_FailedSend ==
    /\ Truthy(last.ai_response)
    /\ ~is_connected_flag
    /\ last.send_returned = <<FALSE>>
    /\ last.sent = <<[to |-> LastSender, message |-> last.ai_response]>>

(* a step in which a message was handled *)
MessageHandled == received' = received + 1

(* C29: if transport initialization fails during start() (unsupported client
   type, or missing Business API credentials) the bot aborts: no message or status
   handler is registered, is_running is false, the client is not connected, and
   the failure propagates to the caller; once start() has succeeded, no failure
   while handling a message stops the bot: is_running stays true. *)
C29_FailedStartAborts ==
    /\ [](/\ InitializeRaises(client) => start_result \in {"not_called", "raised"}
          /\ start_result = "raised" =>
                 /\ InitializeRaises(client)
                 /\ message_handlers = 0
                 /\ status_handlers = 0
                 /\ ~is_running
                 /\ ~is_connected_flag)
    /\ [][(MessageHandled /\ start_result = "running" /\ is_running) =>
              (is_running' /\ start_result' = "running")]_vars

(* start() of a Business API client without credentials has raised *)
C29_StartRaised ==
    /\ start_result = "raised"
    /\ client = [client_type |-> "business_api", credentials |-> FALSE]
    /\ ~is_running

-----------------------------------------------------------------------------
(* Properties of the rate limiter under overlapping handlers, checked under
   SpecOverlapRate *)

(* how many recorded passes of a sender lie within the hour that ends at time t *)
PassesInWindow(sender, t) ==
    Cardinality({i \in 1..Len(passLog[sender]) :
                    passLog[sender][i] > t - Hour /\ passLog[sender][i] <= t})

(* C25: the rate-limit check-and-record is atomic with respect to message
   interleaving: under any interleaving of concurrently handled messages of a
   sender, at most max_messages_per_hour of them pass the check within any
   1-hour window; two concurrent messages (both suspended in the backend call,
   started at the same time) never both take the last free slot. *)
C25_CheckAndRecordAtomic ==
    /\ \A sender \in Senders, t \in 0..MaxTime :
           PassesInWindow(sender, t) <= max_messages_per_hour
    /\ \A h1, h2 \in pending :
           (/\ h1.id # h2.id
            /\ h1.message.from = h2.message.from
            /\ h1.at = h2.at
            /\ h1.stage = "normal"
            /\ h2.stage = "normal"
            /\ Len(SelectSeq(h1.timestamps_before, LAMBDA t : t > h1.at - Hour))
                   = max_messages_per_hour - 1)
           => Len(SelectSeq(h2.timestamps_before, LAMBDA t : t > h2.at - Hour))
                  # max_messages_per_hour - 1

(* two handlers of one sender are suspended in the backend call at once: the
   first took the last free slot, the second, started at the same time, was
   rate limited *)
C25_LastSlotContended ==
    \E h1, h2 \in pending :
        /\ h1.message.from = h2.message.from
        /\ h1.at = h2.at
        /\ h1.stage = "normal"
        /\ Len(h1.timestamps_before) = max_messages_per_hour - 1
        /\ h2.stage = "rate_limited"

-----------------------------------------------------------------------------
(* Properties of the command router, checked under SpecCommand *)

(* the action and the clear-history marker that each command carries *)
ActionOfCommand(command) ==
    CASE command = "stop"  -> [action |-> "pause", clear_history |-> FALSE]
      [] command = "start" -> [action |-> "resume", clear_history |-> FALSE]
      [] command = "clear" -> [action |-> None, clear_history |-> TRUE]
      [] command \in {"help", "status"} -> [action |-> None, clear_history |-> FALSE]

(* the contents that more than one command pattern matches *)
ContentsMatchingTwice ==
    {content \in Contents : Cardinality(MatchingCommandsOf[content]) > 1}

(* C27: only one command can fire per message: for every message body at most
   one of the five command patterns matches, and the result carries the action
   of exactly that command: stop carries pause, start carries resume, clear
   carries the clear-history marker, help and status carry no action. *)
C27_OneCommandPerMessage ==
    /\ ContentsMatchingTwice = {}
    /\ last.stage = "command" =>
           \E command \in MatchingCommandsOf[StripOf[last.message.body]] :
               /\ MatchingCommandsOf[StripOf[last.message.body]] = {command}
               /\ last.processed_message.action = ActionOfCommand(command).action
               /\ last.processed_message.clear_history =
                      ActionOfCommand(command).clear_history
    /\ (Admitted /\ last.stage # "command") =>
           /\ MatchingCommandsOf[StripOf[last.message.body]] = {}
           /\ last.processed_message.action = None
           /\ ~last.processed_message.clear_history

(* "reset", an alternative of clear only, has fired clear and nothing else *)
C27_ResetFiresClear ==
    /\ last.message.body = "reset"
    /\ last.stage = "command"
    /\ MatchingCommandsOf["reset"] = {"clear"}
    /\ last.processed_message.clear_history
    /\ last.processed_message.action = None

-----------------------------------------------------------------------------
(* Properties of the contact lists, checked under SpecFilter *)

(* C28: contact lists change only through the administrative calls: after
   add_blocked_contact(s) every message from s yields should_respond = false and
   leaves s's rate-limit window untouched until remove_blocked_contact(s) is
   called, after which s is admitted again subject to the other filters;
   processing messages never changes the blocklist or the allowlist. *)
C28_BlocklistGovernsAdmission ==
    [][/\ (blocked_contacts' # blocked_contacts \/ allowed_contacts' # allowed_contacts)
              => (received' = received /\ last' = last)
       /\ \A s \in Senders :
              (s \in blocked_contacts' /\ s \notin blocked_contacts)
                  => (received' = received /\ blocked_contacts' = blocked_contacts \cup {s})
       /\ \A s \in Senders :
              (s \in blocked_contacts /\ s \notin blocked_contacts')
                  => (received' = received /\ blocked_contacts' = blocked_contacts \ {s})
       /\ (received' # received /\ last'.message.from \in blocked_contacts) =>
              /\ ~last'.processed_message.should_respond
              /\ ~last'.ai_called
              /\ last'.sent = <<>>
              /\ message_timestamps' = message_timestamps
       /\ (/\ received' # received
           /\ last'.message.from \notin blocked_contacts
           /\ last'.message.type = "text"
           /\ ~last'.message.isGroupMsg
           /\ (allowed_contacts = {} \/ last'.message.from \in allowed_contacts)) =>
              /\ last'.processed_message.should_respond
              /\ last'.stage \in {"rate_limited", "command", "normal"}]_vars

(* a sender that had been admitted was blocked by add_blocked_contact, and the
   sender's next message was stopped without touching the window *)
C28_BlockedAfterAdmission ==
    /\ last.stage = "blocked"
    /\ last.was_blocked
    /\ LastSender \in blocked_contacts
    /\ Len(last.timestamps_before) = 1
    /\ message_timestamps[LastSender] = last.timestamps_before
    /\ ~last.processed_message.should_respond

-----------------------------------------------------------------------------
(* Properties of per-sender state, checked under SpecRate *)

(* the entry of a sender in a dictionary, or that the sender has none *)
EntryOf(d, sender) == IF sender \in DOMAIN d THEN <<d[sender]>> ELSE <<>>

(* C30: per-sender state is isolated: handling a message of sender A leaves the
   rate-limit window and the conversation history of every other sender B
   unchanged, so the admission decision for B's next message is the same whatever
   traffic A has sent: it is decided by B's own earlier passes alone. *)
C30_SenderIsolation ==
    /\ [][received' # received =>
              \A other \in Senders \ {last'.message.from} :
                  /\ EntryOf(message_timestamps', other) = EntryOf(message_timestamps, other)
                  /\ EntryOf(conversation_history', other)
                         = EntryOf(conversation_history, other)
                  /\ passLog'[other] = passLog[other]]_vars
    /\ [](RateChecked =>
              /\ last.passes_in_hour =
                     Cardinality({i \in 1..Len(last.timestamps_before) :
                                     last.timestamps_before[i] > last.at - Hour})
                 \/ ~config.rate_limit_enabled
              /\ (last.stage = "rate_limited") <=>
                     (config.rate_limit_enabled
                      /\ last.passes_in_hour >= max_messages_per_hour))

(* a sender is admitted with an empty window and no history while the other
   sender's window is at the cap and the other sender has a history *)
C30_OtherSenderAtCap ==
    /\ last.stage = "normal"
    /\ last.timestamps_before = <<>>
    /\ last.history_before = <<>>
    /\ OtherSender \in DOMAIN message_timestamps
    /\ Len(message_timestamps[OtherSender]) = max_messages_per_hour
    /\ passLog[OtherSender] = message_timestamps[OtherSender]
    /\ StoredHistory(OtherSender) # <<>>

-----------------------------------------------------------------------------
(* Properties of commands in group chats, checked under SpecGroupCommand *)

(* the contents that a command pattern matches and that also carry a mention *)
MentioningCommands ==
    {content \in Contents : MatchingCommandsOf[content] # {} /\ IsBotMentionedOf[content]}

MentionRequiredInGroup ==
    /\ last.stage # "none"
    /\ last.message.isGroupMsg
    /\ config.respond_to_groups
    /\ config.require_mention

(* C31: with respond_to_groups = true, require_mention = true and the default bot
   name, no command fires from a group message: a bare command body carries no
   mention and is stopped at the mention step, a body that carries a mention is
   matched against the command patterns before the mention is stripped and so
   matches none, and every admitted group message is routed to the generative
   path. *)
C31_NoCommandFromGroup ==
    /\ MentioningCommands = {}
    /\ MentionRequiredInGroup =>
           /\ last.stage # "command"
           /\ last.processed_message.action = None
           /\ ~last.processed_message.clear_history
           /\ MatchingCommandsOf[StripOf[last.message.body]] # {} =>
                  /\ last.stage = "no_mention"
                  /\ ~last.processed_message.should_respond
                  /\ ~last.ai_called
           /\ IsBotMentionedOf[StripOf[last.message.body]] =>
                  /\ MatchingCommandsOf[StripOf[last.message.body]] = {}
                  /\ last.stage \in {"rate_limited", "normal"}
           /\ Admitted =>
                  /\ last.stage = "normal"
                  /\ last.ai_called
                  /\ last.prompt # <<>>
                  /\ last.prompt[Len(last.prompt)] =
                         Turn("user", CleanMessageContentOf[StripOf[last.message.body]][TRUE])

(* "@bot stop" in a group that requires the mention went to the generative
   backend as "stop", with no pause action *)
C31_MentionedStopIsGenerated ==
    /\ MentionRequiredInGroup
    /\ last.message.body = "@bot stop"
    /\ last.stage = "normal"
    /\ last.ai_called
    /\ last.processed_message.content = "stop"
    /\ last.processed_message.action = None

====
